---- MODULE Spec2Model ----
(***************************************************************************)
(* Model of gm_ollama (src/src/lib.rs): the asynchronous bridge between    *)
(* the single host (Lua) thread and the background threads that talk to    *)
(* the Ollama HTTP API.                                                    *)
(*                                                                         *)
(* Threads: the host thread (every #[lua_function] runs on it), one       *)
(* background thread per dispatched operation, one background thread per   *)
(* liveness refresh.  Locks: the runtime mutex, the callback-queue mutex,  *)
(* the running-cache mutex (only ever held for a few assignments, so it is *)
(* folded into the actions that take it).                                  *)
(***************************************************************************)
EXTENDS Integers, Sequences, FiniteSets, TLC

\* ---------------------------------------------------------------- bounds
MaxOps == 2          \* dispatch calls that pass validation
MaxRefresh == 2      \* background liveness refreshes spawned
MaxTime == 2         \* clock ticks (seconds)

\* ------------------------------------------------------ program constants
CACHE_DURATION == 2
DefaultTimeout == 30
DefaultBaseUrl == "http://localhost:11434"

\* ------------------------------------------------------------ Lua values
\* A Lua value on the argument stack: its type, and its payload when it is
\* a string (s) or a number (n).
LuaNil == [t |-> "nil", s |-> "", n |-> 0]
LuaFn == [t |-> "fn", s |-> "", n |-> 0]
LuaTable == [t |-> "table", s |-> "", n |-> 0]
LuaStr(x) == [t |-> "str", s |-> x, n |-> 0]
LuaNum(k) == [t |-> "num", s |-> "", n |-> k]

\* lua.get_top()
get_top(stack) == Len(stack)
\* lua.is_function(i), lua.is_table(i), lua.is_nil(i) for a positive index
is_function(stack, i) == i <= Len(stack) /\ stack[i].t = "fn"
is_table(stack, i) == i <= Len(stack) /\ stack[i].t = "table"
is_nil(stack, i) == i <= Len(stack) /\ stack[i].t = "nil"
\* lua.check_string(i) succeeds on strings and numbers, raises otherwise
check_string_ok(stack, i) == i <= Len(stack) /\ stack[i].t \in {"str", "num"}

\* ------------------------------------------------------- operation kinds
Kinds == {"Generate", "Chat", "ListModels", "GetModelInfo",
          "IsModelAvailable", "Embeddings", "GetRunningModels"}

\* the endpoint each dispatch function formats into its url
PathOf(kind) ==
  CASE kind = "Generate" -> "/api/generate"
    [] kind = "Chat" -> "/api/chat"
    [] kind = "ListModels" -> "/api/tags"
    [] kind = "GetModelInfo" -> "/api/show"
    [] kind = "IsModelAvailable" -> "/api/tags"
    [] kind = "Embeddings" -> "/api/embed"
    [] kind = "GetRunningModels" -> "/api/ps"

\* the stack index at which each dispatch function looks for its callback
CallbackIndex(kind) ==
  CASE kind = "Generate" -> 4
    [] kind = "Chat" -> 3
    [] kind = "ListModels" -> 1
    [] kind = "GetModelInfo" -> 2
    [] kind = "IsModelAvailable" -> 2
    [] kind = "Embeddings" -> 3
    [] kind = "GetRunningModels" -> 1

ErrCallback == "Callback function is required"
ErrBadArgument == "bad argument"
ErrMessages == "Second argument must be a table of messages"
NoError == ""

\* The message-reading loop of ollama_chat.  Every iteration pushes the
\* index, replaces it by messages[i], pops it again, and only then tests
\* is_nil(-1): the value tested is the one below the popped entry, that is
\* the last argument of the call.  The stack is the same at the end of every
\* iteration, so the loop breaks in its first iteration (popping that trailing
\* nil) or never.
ChatLoopBreaks(stack) == stack[Len(stack)].t = "nil"
ChatLoopStack(stack) == SubSeq(stack, 1, Len(stack) - 1)

\* ------------------------------------------------------------ model names
\* A model name is a string, here the sequence of its characters; the Lua
\* string of a stack slot is the text of those characters.
MaxLen == 2
Alphabet == {"m", ":"}
LatestTag == <<":", "l", "a", "t", "e", "s", "t">>

ShortNames == UNION {[1..k -> Alphabet] : k \in 0..MaxLen}
ModelNames == ShortNames \cup {n \o LatestTag : n \in ShortNames}

RECURSIVE Text(_)
Text(chars) == IF chars = <<>> THEN "" ELSE Head(chars) \o Text(Tail(chars))

\* the characters of the string lua.check_string(1) returns
CharsOf == [str \in {Text(n) : n \in ModelNames} |-> CHOOSE n \in ModelNames : Text(n) = str]
Chars(str) == CharsOf[str]

\* str::contains(':')
contains(chars, c) == \E i \in 1..Len(chars) : chars[i] = c

\* variant: the tag is appended unless the name already ends with it
normalize_unless_tagged(model_name) ==
  IF Len(model_name) >= Len(LatestTag)
     /\ SubSeq(model_name, Len(model_name) - Len(LatestTag) + 1, Len(model_name)) = LatestTag
  THEN model_name ELSE model_name \o LatestTag

\* normalize_model_name: a name with a ':' anywhere is kept, else
\* format!("{}:latest", model_name)
normalize_model_name(model_name) ==
  IF contains(model_name, ":") THEN model_name ELSE model_name \o LatestTag

\* the dispatch functions whose first argument is a model name, and the
\* name their request carries
UsesModel(kind) ==
  kind \in {"Generate", "Chat", "GetModelInfo", "IsModelAvailable", "Embeddings"}

RequestModel(kind, stack) ==
  IF UsesModel(kind) THEN normalize_model_name(Chars(stack[1].s)) ELSE <<>>

\* The argument checks a dispatch function makes before lua.reference():
\* the error it raises (NoError when it passes), or "hang" when the call
\* never reaches the callback check.
CallbackCheck(kind, stack) ==
  IF get_top(stack) < CallbackIndex(kind) \/ ~is_function(stack, CallbackIndex(kind))
  THEN ErrCallback ELSE NoError

Validate(kind, stack) ==
  CASE kind = "Generate" ->
         IF ~check_string_ok(stack, 1) \/ ~check_string_ok(stack, 2) THEN ErrBadArgument
         ELSE IF get_top(stack) >= 3 /\ ~is_nil(stack, 3) /\ ~check_string_ok(stack, 3)
              THEN ErrBadArgument
         ELSE CallbackCheck(kind, stack)
    [] kind = "Chat" ->
         IF ~check_string_ok(stack, 1) THEN ErrBadArgument
         ELSE IF ~is_table(stack, 2) THEN ErrMessages
         ELSE IF ~ChatLoopBreaks(stack) THEN "hang"
         ELSE CallbackCheck(kind, ChatLoopStack(stack))
    [] kind \in {"ListModels", "GetRunningModels"} ->
         CallbackCheck(kind, stack)
    [] kind \in {"GetModelInfo", "IsModelAvailable"} ->
         IF ~check_string_ok(stack, 1) THEN ErrBadArgument
         ELSE CallbackCheck(kind, stack)
    [] kind = "Embeddings" ->
         IF ~check_string_ok(stack, 1) THEN ErrBadArgument
         ELSE IF ~is_table(stack, 2) /\ ~check_string_ok(stack, 2) THEN ErrBadArgument
         ELSE CallbackCheck(kind, stack)

\* Argument stacks the host passes to the dispatch functions: the well-formed
\* call of each kind, and calls whose callback is missing, nil or a string.
ValidArgs(kind) ==
  CASE kind = "Generate" -> <<LuaStr("m"), LuaStr("p"), LuaNil, LuaFn>>
    [] kind = "Chat" -> <<LuaStr("m"), LuaTable, LuaFn, LuaNil>>
    [] kind = "ListModels" -> <<LuaFn>>
    [] kind = "GetModelInfo" -> <<LuaStr("m"), LuaFn>>
    [] kind = "IsModelAvailable" -> <<LuaStr("m"), LuaFn>>
    [] kind = "Embeddings" -> <<LuaStr("m"), LuaStr("p"), LuaFn>>
    [] kind = "GetRunningModels" -> <<LuaFn>>

\* the well-formed call of a kind for a given model name
NameArgs(kind, name) == [ValidArgs(kind) EXCEPT ![1] = LuaStr(Text(name))]

\* the arguments that precede the callback in a well-formed call
Prefix(kind) == SubSeq(ValidArgs(kind), 1, CallbackIndex(kind) - 1)

DispatchArgs(kind) ==
  { ValidArgs(kind),
    Prefix(kind) \o <<LuaFn>>,
    Prefix(kind),
    Prefix(kind) \o <<LuaNil>>,
    Prefix(kind) \o <<LuaStr("x")>>,
    Prefix(kind) \o <<LuaStr("x"), LuaNil>> }

\* ---------------------------------------------------------------- state
VARIABLES
  CONFIG,          \* static mut CONFIG: Option<OllamaConfig>
  CLIENT,          \* static mut CLIENT: Option<Client>
  RUNTIME,         \* static mut RUNTIME: Option<Arc<Mutex<Runtime>>> and who holds the mutex
  CALLBACK_QUEUE,  \* static mut CALLBACK_QUEUE: the Vec and whether the host holds its mutex
  RUNNING_CACHE,   \* static mut RUNNING_CACHE: Option<Arc<Mutex<RunningCache>>>
  registry,        \* the Lua registry: reference number -> the function stored under it
  refFree,         \* the registry's free list of released reference numbers
  ops,             \* the background thread of each dispatched operation
  nOps,            \* dispatches that passed validation so far
  refreshes,       \* the background threads spawned by update_running_status_async
  nRefresh,        \* refresh threads spawned so far
  host,            \* the host thread: where it is, the queue entry it is delivering,
                   \* the number of drain passes that delivered something, and the
                   \* address its liveness probe went to
  now,             \* Instant::now(), in seconds
  luaError,        \* the Lua error raised by the last dispatch / SetConfig call
  lastIR           \* the last IsRunning call that returned: its path and its boolean

vars == <<CONFIG, CLIENT, RUNTIME, CALLBACK_QUEUE, RUNNING_CACHE, registry, refFree,
          ops, nOps, refreshes, nRefresh, host, now, luaError, lastIR>>

OpIds == 1..MaxOps
RefreshIds == 1..MaxRefresh
Refs == 1..MaxOps

\* thread identities, for the holder of the runtime mutex
NoThread == <<"none", 0>>
HostThread == <<"host", 0>>
OpThread(o) == <<"op", o>>
RefreshThread(r) == <<"refresh", r>>

NoUrl == <<"", "">>
NoEntry == [some |-> FALSE, callback_ref |-> 0, data |-> "", op |-> 0]

UnusedOp == [pc |-> "unused", kind |-> "", callback_ref |-> 0, url |-> NoUrl,
             timeout |-> 0, target |-> NoUrl, data |-> "",
             pushes |-> 0, resolves |-> 0, invokes |-> 0, derefs |-> 0, pass |-> 0,
             got |-> "", reported |-> FALSE, pushed_at |-> 0, model |-> <<>>]

UnusedRefresh == [pc |-> "unused", url |-> NoUrl, timeout |-> 0, target |-> NoUrl,
                  is_running |-> FALSE]

\* impl Default for OllamaConfig
DefaultConfig == [some |-> TRUE, base_url |-> DefaultBaseUrl, timeout |-> DefaultTimeout]
NoConfig == [some |-> FALSE, base_url |-> "", timeout |-> 0]
NoClient == [some |-> FALSE, timeout |-> 0]
NoCache == [some |-> FALSE, is_running |-> FALSE, last_check |-> 0, first_check_done |-> FALSE]

\* get_config(): CONFIG.get_or_insert_with(OllamaConfig::default)
get_config(config) == IF config.some THEN config ELSE DefaultConfig

\* get_client(): CLIENT.get_or_insert_with(|| Client::builder().timeout(get_config().timeout))
get_client(client, config) ==
  IF client.some THEN client ELSE [some |-> TRUE, timeout |-> get_config(config).timeout]

\* CONFIG after get_client() ; get_config()
ConfigAfterUse(config) == get_config(config)

\* get_runtime(): creates the runtime on first use, leaves the mutex as it is
get_runtime(runtime) == [runtime EXCEPT !.some = TRUE]

\* get_callback_queue(): creates the empty queue on first use
get_callback_queue(queue) == [queue EXCEPT !.some = TRUE]

\* get_running_cache(): on first use the cache starts stale and unchecked
get_running_cache(cache, t) ==
  IF cache.some THEN cache
  ELSE [some |-> TRUE, is_running |-> FALSE, last_check |-> t - CACHE_DURATION,
        first_check_done |-> FALSE]

\* format!("{}/api/...", config.base_url)
format_url(config, path) == <<get_config(config).base_url, path>>

\* luaL_ref: reuse the most recently released reference, else take a new one
lua_reference(reg, free) ==
  IF free # <<>> THEN Head(free)
  ELSE Cardinality({r \in Refs : reg[r] # 0}) + 1

Init ==
  /\ CONFIG = NoConfig
  /\ CLIENT = NoClient
  /\ RUNTIME = [some |-> FALSE, holder |-> NoThread]
  /\ CALLBACK_QUEUE = [some |-> FALSE, locked |-> FALSE, items |-> <<>>]
  /\ RUNNING_CACHE = NoCache
  /\ registry = [r \in Refs |-> 0]
  /\ refFree = <<>>
  /\ ops = [o \in OpIds |-> UnusedOp]
  /\ nOps = 0
  /\ refreshes = [r \in RefreshIds |-> UnusedRefresh]
  /\ nRefresh = 0
  /\ host = [pc |-> "idle", cur |-> NoEntry, status |-> FALSE, url |-> NoUrl, timeout |-> 0,
             target |-> NoUrl, pass |-> 0, probed |-> ""]
  /\ now = 0
  /\ luaError = NoError
  /\ lastIR = [path |-> "none", val |-> FALSE]

\* The host thread can enter a #[lua_function]: it is not inside one already.
\* (It is either at top level or running Lua code of a continuation.)
HostCanCall == host.pc = "idle"
InContinuation == host.pc = "idle" /\ host.cur.some

\* ------------------------------------------------------------- SetConfig
\* lua.to_number(2) as u64: a value that is not a number reads as 0, and the
\* cast saturates a negative number to 0.
to_number(v) == IF v.t = "num" THEN v.n ELSE 0
as_u64(x) == IF x < 0 THEN 0 ELSE x

timeout_secs(stack) ==
  IF get_top(stack) >= 2 /\ ~is_nil(stack, 2) THEN as_u64(to_number(stack[2]))
  ELSE DefaultTimeout

\* variant: SetConfig keeps the cached client
KeepClient(client) == client

\* the value CLIENT has after ollama_set_config
ResetClient(client) == NoClient

SetConfigArgs ==
  { <<LuaStr("http://u1")>>, <<LuaStr("http://u1"), LuaNum(5)>>,
    <<LuaStr("http://u2"), LuaNil>>, <<LuaNil>>, <<>>,
    <<LuaStr("http://u1"), LuaStr("soon")>>, <<LuaStr("http://u1"), LuaNum(0 - 1)>>,
    <<LuaStr("not a url"), LuaNum(5)>> }

\* variant: a new configuration also forgets the cached liveness answer
set_config_clears_cache(stack) ==
  /\ HostCanCall
  /\ check_string_ok(stack, 1)
  /\ CONFIG' = [some |-> TRUE, base_url |-> stack[1].s, timeout |-> timeout_secs(stack)]
  /\ CLIENT' = ResetClient(CLIENT)
  /\ luaError' = NoError
  /\ RUNNING_CACHE' = NoCache
  /\ UNCHANGED <<RUNTIME, CALLBACK_QUEUE, registry, refFree, ops, nOps, refreshes, nRefresh,
                 host, now, lastIR>>

ollama_set_config(stack) ==
  /\ HostCanCall
  /\ IF ~check_string_ok(stack, 1)
     THEN /\ luaError' = ErrBadArgument
          /\ UNCHANGED <<CONFIG, CLIENT>>
     ELSE /\ CONFIG' = [some |-> TRUE, base_url |-> stack[1].s,
                        timeout |-> timeout_secs(stack)]
          /\ CLIENT' = ResetClient(CLIENT)
          /\ luaError' = NoError
  /\ UNCHANGED <<RUNTIME, CALLBACK_QUEUE, RUNNING_CACHE, registry, refFree, ops, nOps,
                 refreshes, nRefresh, host, now, lastIR>>

\* -------------------------------------------------------------- dispatch
\* What every dispatch function does once its arguments passed: take a
\* reference to the callback, capture client, url, runtime and queue, and
\* spawn the background thread.
Spawn(kind, stack) ==
  LET ref == lua_reference(registry, refFree)
      id == nOps + 1
  IN /\ nOps < MaxOps
     /\ registry' = [registry EXCEPT ![ref] = id]
     /\ refFree' = IF refFree # <<>> THEN Tail(refFree) ELSE refFree
     /\ CLIENT' = get_client(CLIENT, CONFIG)
     /\ CONFIG' = ConfigAfterUse(CONFIG)
     /\ RUNTIME' = get_runtime(RUNTIME)
     /\ CALLBACK_QUEUE' = get_callback_queue(CALLBACK_QUEUE)
     /\ ops' = [ops EXCEPT ![id] =
                  [UnusedOp EXCEPT !.pc = "waitRt", !.kind = kind, !.callback_ref = ref,
                                   !.model = RequestModel(kind, stack),
                                   !.url = format_url(CONFIG, PathOf(kind)),
                                   !.timeout = get_client(CLIENT, CONFIG).timeout]]
     /\ nOps' = id
     /\ luaError' = NoError
     /\ UNCHANGED <<RUNNING_CACHE, refreshes, nRefresh, host, now, lastIR>>

\* ollama_generate, ollama_chat, ollama_list_models, ollama_get_model_info,
\* ollama_is_model_available, ollama_generate_embeddings,
\* ollama_get_running_models
Dispatch(kind, stack) ==
  /\ HostCanCall
  /\ LET v == Validate(kind, stack)
     IN CASE v = "hang" ->
               /\ host' = [host EXCEPT !.pc = "chatLoop"]
               /\ UNCHANGED <<CONFIG, CLIENT, RUNTIME, CALLBACK_QUEUE, RUNNING_CACHE,
                              registry, refFree, ops, nOps, refreshes, nRefresh, now,
                              luaError, lastIR>>
          [] v = NoError -> Spawn(kind, stack)
          [] OTHER ->
               /\ luaError' = v
               /\ UNCHANGED <<CONFIG, CLIENT, RUNTIME, CALLBACK_QUEUE, RUNNING_CACHE,
                              registry, refFree, ops, nOps, refreshes, nRefresh, host,
                              now, lastIR>>

\* A dispatch whose arguments passed and whose reference was taken, when the
\* HTTP client or the async runtime cannot be built: get_client() and
\* get_runtime() call .expect(..), which panics on the host thread inside
\* the #[lua_function] before any thread is spawned.  The panic either
\* unwinds into the host as an error of the call (caught) or ends the host.
ErrClient == "Failed to create HTTP client"
ErrRuntime == "Failed to create async runtime"
PanicCauses == {"client", "runtime"}

DispatchPanics(kind, stack, cause, caught) ==
  LET ref == lua_reference(registry, refFree)
      id == nOps + 1
  IN /\ HostCanCall
     /\ Validate(kind, stack) = NoError
     /\ nOps < MaxOps
     /\ IF cause = "client" THEN ~CLIENT.some ELSE ~RUNTIME.some
     /\ registry' = [registry EXCEPT ![ref] = id]
     /\ refFree' = IF refFree # <<>> THEN Tail(refFree) ELSE refFree
     /\ CLIENT' = IF cause = "client" THEN CLIENT ELSE get_client(CLIENT, CONFIG)
     /\ CONFIG' = ConfigAfterUse(CONFIG)
     /\ ops' = [ops EXCEPT ![id] = [UnusedOp EXCEPT !.pc = "failed", !.kind = kind,
                                                     !.callback_ref = ref]]
     /\ nOps' = id
     /\ luaError' = IF cause = "client" THEN ErrClient ELSE ErrRuntime
     /\ host' = [host EXCEPT !.pc = IF caught THEN "idle" ELSE "panicked"]
     /\ UNCHANGED <<RUNTIME, CALLBACK_QUEUE, RUNNING_CACHE, refreshes, nRefresh, now, lastIR>>

\* ------------------------------------------------- background operation
\* variants: the runtime is entered without its mutex; the network call
\* reads the address from CONFIG when it starts
CanLockAlways(runtime) == TRUE
NetTargetCurrent(captured, config) == <<get_config(config).base_url, captured[2]>>

\* runtime.lock().unwrap(), then the network call starts against the url
\* the closure captured
CanLockRuntime(runtime) == runtime.holder = NoThread

NetTarget(captured, config) == captured

BgLock(o) ==
  /\ ops[o].pc = "waitRt"
  /\ CanLockRuntime(RUNTIME)
  /\ RUNTIME' = [RUNTIME EXCEPT !.holder = OpThread(o)]
  /\ ops' = [ops EXCEPT ![o].pc = "net", ![o].target = NetTarget(ops[o].url, CONFIG)]
  /\ UNCHANGED <<CONFIG, CLIENT, CALLBACK_QUEUE, RUNNING_CACHE, registry, refFree, nOps,
                 refreshes, nRefresh, host, now, luaError, lastIR>>

\* rt.block_on(...) returns Ok(response) or Err(e); the match builds the
\* CallbackResult
ResultData(kind, ok) == IF ok THEN kind ELSE "Error"

BgNet(o, ok) ==
  /\ ops[o].pc = "net"
  /\ ops' = [ops EXCEPT ![o].pc = "push", ![o].target = NoUrl,
                         ![o].data = ResultData(ops[o].kind, ok)]
  /\ UNCHANGED <<CONFIG, CLIENT, RUNTIME, CALLBACK_QUEUE, RUNNING_CACHE, registry, refFree,
                 nOps, refreshes, nRefresh, host, now, luaError, lastIR>>

\* how many entries were pushed so far; an entry carries its number until
\* its reference is released
Pushed(opsf) == Cardinality({x \in OpIds : opsf[x].pushes > 0})

\* variant: a new entry goes to the front of the Vec
QueuePushFront(items, entry) == <<entry>> \o items

\* variant: the push drops the entry
QueuePushDrop(items, entry) == items

\* Vec::push
QueuePush(items, entry) == Append(items, entry)

\* variant: the background thread calls the continuation itself and
\* releases the reference, instead of queueing the result
BgPushInvokes(o) ==
  /\ ops[o].pc = "push"
  /\ registry' = [registry EXCEPT ![ops[o].callback_ref] = 0]
  /\ refFree' = <<ops[o].callback_ref>> \o refFree
  /\ RUNTIME' = [RUNTIME EXCEPT !.holder = NoThread]
  /\ ops' = [ops EXCEPT ![o].pc = "done", ![o].resolves = @ + 1, ![o].invokes = @ + 1,
                         ![o].derefs = @ + 1]
  /\ UNCHANGED <<CONFIG, CLIENT, CALLBACK_QUEUE, RUNNING_CACHE, nOps, refreshes, nRefresh,
                 host, now, luaError, lastIR>>

\* queue.lock().unwrap().push(callback_result); the closure then ends and
\* drops the runtime guard
BgPush(o) ==
  /\ ops[o].pc = "push"
  /\ ~CALLBACK_QUEUE.locked
  /\ CALLBACK_QUEUE' = [CALLBACK_QUEUE EXCEPT !.items =
        QueuePush(@, [some |-> TRUE, callback_ref |-> ops[o].callback_ref,
                      data |-> ops[o].data, op |-> o])]
  /\ RUNTIME' = [RUNTIME EXCEPT !.holder = NoThread]
  /\ ops' = [ops EXCEPT ![o].pc = "done", ![o].pushes = @ + 1,
                         ![o].pushed_at = Pushed(ops) + 1]
  /\ UNCHANGED <<CONFIG, CLIENT, RUNNING_CACHE, registry, refFree, nOps, refreshes,
                 nRefresh, host, now, luaError, lastIR>>

\* ----------------------------------------------------- process_callbacks
\* variant: every entry is delivered as (nil, result)
ArgShapeResult(data) == "result"

\* the arguments a continuation is called with: (message, nil) for
\* CallbackData::Error, (nil, result) for every other variant
ArgShape(data) == IF data = "Error" THEN "error" ELSE "result"

\* variant: the entry is taken from the queue, no function is called
InvokeNothing(opsf, reg, entry, pass) ==
  [opsf EXCEPT ![entry.op].resolves = @ + 1, ![entry.op].pass = pass]

\* lua.from_reference(callback_ref) ... lua.pcall(2, 0, error_handler_index):
\* the function stored under the reference is called (a released reference
\* holds nil, and calling nil only raises into the error handler)
Invoke(opsf, reg, entry, pass) ==
  LET f == reg[entry.callback_ref]
      resolved == [opsf EXCEPT ![entry.op].resolves = @ + 1, ![entry.op].pass = pass]
  IN IF f = 0 THEN resolved
     ELSE [resolved EXCEPT ![f].invokes = @ + 1, ![f].got = ArgShape(entry.data)]

\* variant: an error raised by a continuation ends the pass
DrainStopsOnError(raised) == ~raised

\* whether the drain goes on to the next entry after a continuation ended
\* (pcall swallows the error of a continuation)
DrainGoesOn(raised) == TRUE

\* variant: the loop iterates the Vec without removing what it yields
DrainRestKeep(items) == items

\* callbacks.drain(..): the entry handed to the loop body has left the Vec
DrainRest(items) == Tail(items)

\* process_callbacks up to the first continuation: lock the queue and start
\* draining it.  A call made from inside a continuation finds the queue mutex
\* held by its own thread and never returns.
process_callbacks ==
  /\ HostCanCall
  /\ IF CALLBACK_QUEUE.locked
     THEN /\ host' = [host EXCEPT !.pc = "stuck"]
          /\ UNCHANGED <<CALLBACK_QUEUE, ops>>
     ELSE IF CALLBACK_QUEUE.items = <<>>
     THEN /\ CALLBACK_QUEUE' = get_callback_queue(CALLBACK_QUEUE)
          /\ UNCHANGED <<host, ops>>
     ELSE /\ CALLBACK_QUEUE' = [CALLBACK_QUEUE EXCEPT !.locked = TRUE,
                                                     !.items = DrainRest(@)]
          /\ host' = [host EXCEPT !.cur = Head(CALLBACK_QUEUE.items), !.pass = @ + 1]
          /\ ops' = Invoke(ops, registry, Head(CALLBACK_QUEUE.items), host.pass + 1)
  /\ UNCHANGED <<CONFIG, CLIENT, RUNTIME, RUNNING_CACHE, registry, refFree, nOps,
                 refreshes, nRefresh, now, luaError, lastIR>>

\* lua.dereference(callback_ref)
Dereference(reg, ref) == [reg EXCEPT ![ref] = 0]

\* The continuation being run returns (or raises, which pcall hands to
\* ErrorNoHaltWithStack); process_callbacks releases the reference and goes on
\* with the next entry, or ends the drain and unlocks the queue.
ContinuationReturn(raised) ==
  /\ InContinuation
  /\ LET e == host.cur
         ops1 == [ops EXCEPT ![e.op].derefs = @ + 1, ![e.op].reported = @ \/ raised,
                             ![e.op].pushed_at = 0]
         reg1 == Dereference(registry, e.callback_ref)
         rest == CALLBACK_QUEUE.items
     IN /\ registry' = reg1
        /\ refFree' = <<e.callback_ref>> \o refFree
        /\ IF rest = <<>> \/ ~DrainGoesOn(raised)
           THEN /\ host' = [host EXCEPT !.cur = NoEntry]
                /\ CALLBACK_QUEUE' = [CALLBACK_QUEUE EXCEPT !.locked = FALSE,
                                                            !.items = <<>>]
                /\ ops' = ops1
           ELSE /\ host' = [host EXCEPT !.cur = Head(rest)]
                /\ CALLBACK_QUEUE' = [CALLBACK_QUEUE EXCEPT !.items = DrainRest(rest)]
                /\ ops' = Invoke(ops1, reg1, Head(rest), host.pass)
  /\ UNCHANGED <<CONFIG, CLIENT, RUNTIME, RUNNING_CACHE, nOps, refreshes, nRefresh, now,
                 luaError, lastIR>>

\* ------------------------------------------------------------- IsRunning
\* variants: every query counts as stale; an entry exactly CACHE_DURATION
\* old still counts as fresh
NeedsUpdateAlways(cache, t) == TRUE
NeedsUpdateStrict(cache, t) == t - cache.last_check > CACHE_DURATION

\* cache_guard.last_check.elapsed() >= CACHE_DURATION
NeedsUpdate(cache, t) == t - cache.last_check >= CACHE_DURATION
FirstCheck(cache) == ~cache.first_check_done

\* update_running_status_async(): capture client, url, runtime and cache on
\* the host thread and spawn the refresh thread
SpawnRefresh ==
  /\ nRefresh < MaxRefresh
  /\ CLIENT' = get_client(CLIENT, CONFIG)
  /\ CONFIG' = ConfigAfterUse(CONFIG)
  /\ RUNTIME' = get_runtime(RUNTIME)
  /\ refreshes' = [refreshes EXCEPT ![nRefresh + 1] =
        [UnusedRefresh EXCEPT !.pc = "waitRt", !.url = format_url(CONFIG, "/api/tags"),
                              !.timeout = get_client(CLIENT, CONFIG).timeout]]
  /\ nRefresh' = nRefresh + 1

\* the boolean a query returns when the first check was done before
CachedAnswer(cache) == cache.is_running

\* ollama_is_running up to its first blocking point
ollama_is_running ==
  /\ HostCanCall
  /\ LET cache == get_running_cache(RUNNING_CACHE, now)
     IN /\ RUNNING_CACHE' = cache
        /\ IF FirstCheck(cache)
           THEN /\ CLIENT' = get_client(CLIENT, CONFIG)
                /\ CONFIG' = ConfigAfterUse(CONFIG)
                /\ RUNTIME' = get_runtime(RUNTIME)
                /\ host' = [host EXCEPT !.pc = "irWaitRt",
                                        !.url = format_url(CONFIG, "/api/tags"),
                                        !.timeout = get_client(CLIENT, CONFIG).timeout]
                /\ UNCHANGED <<refreshes, nRefresh, lastIR>>
           ELSE /\ IF NeedsUpdate(cache, now)
                   THEN SpawnRefresh
                   ELSE UNCHANGED <<CLIENT, CONFIG, RUNTIME, refreshes, nRefresh>>
                /\ lastIR' = [path |-> IF NeedsUpdate(cache, now) THEN "stale" ELSE "fresh",
                              val |-> CachedAnswer(cache)]
                /\ UNCHANGED host
  /\ UNCHANGED <<CALLBACK_QUEUE, registry, refFree, ops, nOps, now, luaError>>

\* first check: let rt = runtime.lock().unwrap(); the probe starts
IsRunningLock ==
  /\ host.pc = "irWaitRt"
  /\ CanLockRuntime(RUNTIME)
  /\ RUNTIME' = [RUNTIME EXCEPT !.holder = HostThread]
  /\ host' = [host EXCEPT !.pc = "irNet", !.target = NetTarget(host.url, CONFIG)]
  /\ UNCHANGED <<CONFIG, CLIENT, CALLBACK_QUEUE, RUNNING_CACHE, registry, refFree, ops,
                 nOps, refreshes, nRefresh, now, luaError, lastIR>>

\* what client.get(&url).send().await can end in, and the boolean the probe
\* makes of it: Ok(response) => response.status().is_success(), Err(_) => false
ProbeOutcomes == {"success", "status_error", "net_error"}

\* variant: any response counts as running, whatever its status
ProbeStatusAnyResponse(outcome) == outcome # "net_error"

ProbeStatus(outcome) == outcome = "success"

\* first check: rt.block_on(...) returns response.status().is_success(),
\* or false on Err
IsRunningNet(status) ==
  /\ host.pc = "irNet"
  /\ host' = [host EXCEPT !.pc = "irUpdate", !.status = status, !.target = NoUrl,
                          !.probed = host.target[1]]
  /\ UNCHANGED <<CONFIG, CLIENT, RUNTIME, CALLBACK_QUEUE, RUNNING_CACHE, registry, refFree,
                 ops, nOps, refreshes, nRefresh, now, luaError, lastIR>>

\* variant: a probe that failed leaves the cache unchecked
UpdateCacheUncheckedOnFailure(cache, status, t) ==
  [cache EXCEPT !.is_running = status, !.last_check = t, !.first_check_done = status]

\* the cache as a completed probe leaves it
UpdateCache(cache, status, t) ==
  [cache EXCEPT !.is_running = status, !.last_check = t, !.first_check_done = TRUE]

\* variant: the first check pushes what the cache held before the probe
FirstAnswerCached(actual_status, cache) == cache.is_running

\* the boolean the first check pushes
FirstAnswer(actual_status, cache) == actual_status

\* first check: update the cache, push actual_status, return (dropping rt)
IsRunningReturn ==
  /\ host.pc = "irUpdate"
  /\ RUNNING_CACHE' = UpdateCache(RUNNING_CACHE, host.status, now)
  /\ lastIR' = [path |-> "first", val |-> FirstAnswer(host.status, RUNNING_CACHE)]
  /\ RUNTIME' = [RUNTIME EXCEPT !.holder = NoThread]
  /\ host' = [host EXCEPT !.pc = "idle", !.status = FALSE, !.url = NoUrl, !.timeout = 0]
  /\ UNCHANGED <<CONFIG, CLIENT, CALLBACK_QUEUE, registry, refFree, ops, nOps, refreshes,
                 nRefresh, now, luaError>>

\* ---------------------------------------------------- background refresh
RefreshLock(r) ==
  /\ refreshes[r].pc = "waitRt"
  /\ CanLockRuntime(RUNTIME)
  /\ RUNTIME' = [RUNTIME EXCEPT !.holder = RefreshThread(r)]
  /\ refreshes' = [refreshes EXCEPT ![r].pc = "net",
                                    ![r].target = NetTarget(refreshes[r].url, CONFIG)]
  /\ UNCHANGED <<CONFIG, CLIENT, CALLBACK_QUEUE, RUNNING_CACHE, registry, refFree, ops,
                 nOps, nRefresh, host, now, luaError, lastIR>>

\* variant: the runtime guard is dropped as soon as block_on returns
RefreshNetReleases(r, status) ==
  /\ refreshes[r].pc = "net"
  /\ refreshes' = [refreshes EXCEPT ![r].pc = "update", ![r].target = NoUrl,
                                    ![r].is_running = status]
  /\ RUNTIME' = [RUNTIME EXCEPT !.holder = NoThread]
  /\ UNCHANGED <<CONFIG, CLIENT, CALLBACK_QUEUE, RUNNING_CACHE, registry, refFree,
                 ops, nOps, nRefresh, host, now, luaError, lastIR>>

RefreshNet(r, status) ==
  /\ refreshes[r].pc = "net"
  /\ refreshes' = [refreshes EXCEPT ![r].pc = "update", ![r].target = NoUrl,
                                    ![r].is_running = status]
  /\ UNCHANGED <<CONFIG, CLIENT, RUNTIME, CALLBACK_QUEUE, RUNNING_CACHE, registry, refFree,
                 ops, nOps, nRefresh, host, now, luaError, lastIR>>

\* the refresh thread writes the cache and ends, dropping rt
RefreshUpdate(r) ==
  /\ refreshes[r].pc = "update"
  /\ RUNNING_CACHE' = UpdateCache(RUNNING_CACHE, refreshes[r].is_running, now)
  /\ RUNTIME' = [RUNTIME EXCEPT !.holder = NoThread]
  /\ refreshes' = [refreshes EXCEPT ![r] = [UnusedRefresh EXCEPT !.pc = "done"]]
  /\ UNCHANGED <<CONFIG, CLIENT, CALLBACK_QUEUE, registry, refFree, ops, nOps, nRefresh,
                 host, now, luaError, lastIR>>

\* ----------------------------------------------------------------- time
Tick ==
  /\ now < MaxTime
  /\ now' = now + 1
  /\ UNCHANGED <<CONFIG, CLIENT, RUNTIME, CALLBACK_QUEUE, RUNNING_CACHE, registry, refFree,
                 ops, nOps, refreshes, nRefresh, host, luaError, lastIR>>

\* ------------------------------------------------------- specifications
\* the dispatch functions the bridge specification calls
BridgeKinds == {"Chat", "ListModels"}

\* the calls of the bridge specification: those that raise no argument error
\* (what the argument checks raise is the matter of the argument specification)
BridgeArgs(kind) == {stack \in DispatchArgs(kind) : Validate(kind, stack) \in {NoError, "hang"}}

\* The bridge: dispatches of two kinds, their background threads, the drain
\* and the liveness query (whose first call probes on the host thread).  The
\* clock stands still, so the cache is never stale.
NextBridge ==
  \/ \E kind \in BridgeKinds : \E stack \in BridgeArgs(kind) : Dispatch(kind, stack)
  \/ \E o \in OpIds : BgLock(o)
  \/ \E o \in OpIds : \E ok \in BOOLEAN : BgNet(o, ok)
  \/ \E o \in OpIds : BgPush(o)
  \/ process_callbacks
  \/ \E raised \in BOOLEAN : ContinuationReturn(raised)
  \/ ollama_is_running
  \/ IsRunningLock
  \/ \E outcome \in ProbeOutcomes : IsRunningNet(ProbeStatus(outcome))
  \/ IsRunningReturn

Spec == Init /\ [][NextBridge]_vars

\* Bounds of the liveness-cache specification: dispatches that compete with
\* the probes for the runtime.
MaxCacheOps == 1

\* The liveness cache: the clock, the three paths of the liveness query, the
\* refresh threads, a change of configuration, and dispatched operations
\* competing for the runtime.
NextCache ==
  \/ ollama_set_config(<<LuaStr("http://u1"), LuaNum(5)>>)
  \/ nOps < MaxCacheOps /\ Dispatch("ListModels", ValidArgs("ListModels"))
  \/ \E o \in OpIds : BgLock(o)
  \/ \E o \in OpIds : BgNet(o, TRUE)
  \/ \E o \in OpIds : BgPush(o)
  \/ process_callbacks
  \/ ContinuationReturn(FALSE)
  \/ ollama_is_running
  \/ IsRunningLock
  \/ \E outcome \in ProbeOutcomes : IsRunningNet(ProbeStatus(outcome))
  \/ IsRunningReturn
  \/ \E r \in RefreshIds : RefreshLock(r)
  \/ \E r \in RefreshIds : \E outcome \in ProbeOutcomes : RefreshNet(r, ProbeStatus(outcome))
  \/ \E r \in RefreshIds : RefreshUpdate(r)
  \/ Tick

SpecCache == Init /\ [][NextCache]_vars

\* Bound of the argument specification: dispatches that pass validation.
MaxArgOps == 1

\* The arguments: every dispatch function called with every argument stack
\* of DispatchArgs, SetConfig with every stack of SetConfigArgs, the
\* background threads and the drain.
NextArgs ==
  \/ \E stack \in SetConfigArgs : ollama_set_config(stack)
  \/ nOps < MaxArgOps /\ \E kind \in Kinds : \E stack \in DispatchArgs(kind) : Dispatch(kind, stack)
  \/ \E o \in OpIds : BgLock(o)
  \/ \E o \in OpIds : \E ok \in BOOLEAN : BgNet(o, ok)
  \/ \E o \in OpIds : BgPush(o)
  \/ process_callbacks
  \/ \E raised \in BOOLEAN : ContinuationReturn(raised)

SpecArgs == Init /\ [][NextArgs]_vars

\* The scheduling the code relies on: every spawned thread runs, a network
\* call ends, a continuation returns, and the host's Think hook calls
\* process_callbacks (from top level) again and again.
ThinkHook == ~CALLBACK_QUEUE.locked /\ process_callbacks

BridgeFairness ==
  /\ \A o \in OpIds : /\ WF_vars(BgLock(o))
                      /\ WF_vars(\E ok \in BOOLEAN : BgNet(o, ok))
                      /\ WF_vars(BgPush(o))
  /\ WF_vars(\E raised \in BOOLEAN : ContinuationReturn(raised))
  /\ WF_vars(IsRunningLock)
  /\ WF_vars(\E outcome \in ProbeOutcomes : IsRunningNet(ProbeStatus(outcome)))
  /\ WF_vars(IsRunningReturn)
  /\ WF_vars(ThinkHook)

SpecLive == Spec /\ BridgeFairness

\* Failures of construction: ListModels dispatches, some of which cannot
\* build the client or the runtime, SetConfig (after which the client is
\* built anew), the background threads, and the Think hook draining from top
\* level.
NextFail ==
  \/ ollama_set_config(<<LuaStr("http://u1"), LuaNum(5)>>)
  \/ Dispatch("ListModels", ValidArgs("ListModels"))
  \/ \E cause \in PanicCauses : \E caught \in BOOLEAN :
        DispatchPanics("ListModels", ValidArgs("ListModels"), cause, caught)
  \/ \E o \in OpIds : BgLock(o)
  \/ \E o \in OpIds : \E ok \in BOOLEAN : BgNet(o, ok)
  \/ \E o \in OpIds : BgPush(o)
  \/ ThinkHook
  \/ \E raised \in BOOLEAN : ContinuationReturn(raised)

SpecFail == Init /\ [][NextFail]_vars

SpecFailLive == SpecFail /\ BridgeFairness

\* Bound of the model-name specification: dispatches that pass validation.
MaxNameOps == 1

\* The model names: every dispatch function that takes a model name called
\* with every name of ModelNames, one request after the other has been
\* delivered, the background threads and the drain.
NoRequestPending == \A o \in OpIds : ops[o].pc = "unused" \/ ops[o].derefs = 1

NextNames ==
  \/ /\ nOps < MaxNameOps /\ NoRequestPending
     /\ \E kind \in {k \in Kinds : UsesModel(k)} : \E name \in ModelNames :
           Dispatch(kind, NameArgs(kind, name))
  \/ \E o \in OpIds : BgLock(o)
  \/ \E o \in OpIds : \E ok \in BOOLEAN : BgNet(o, ok)
  \/ \E o \in OpIds : BgPush(o)
  \/ ThinkHook
  \/ ContinuationReturn(FALSE)

SpecNames == Init /\ [][NextNames]_vars

\* ----------------------------------------------------------------- claims
Dispatched(o) == ops[o].pc # "unused"

\* C1: every dispatch that passed validation eventually pushes exactly one
\* QueuedResult, and every pushed result is eventually handed to its
\* continuation by a drain, once.
C1_EveryDispatchDelivered ==
  /\ \A o \in OpIds : Dispatched(o) ~> (ops[o].pushes = 1)
  /\ \A o \in OpIds : (ops[o].pushes = 1) ~> (ops[o].invokes = 1)
  /\ [](\A o \in OpIds : ops[o].pushes <= 1 /\ ops[o].invokes <= 1)

\* C2: no handle is resolved twice: the reference of a dispatch is passed to
\* from_reference/pcall at most once and to dereference at most once, and its
\* continuation is called at most once.
C2_ResolvedAtMostOnce ==
  \A o \in OpIds : ops[o].resolves <= 1 /\ ops[o].derefs <= 1 /\ ops[o].invokes <= 1

\* both handles were resolved and released, in different drain passes
C2_Witness ==
  /\ ops[1].derefs = 1 /\ ops[2].derefs = 1
  /\ ops[1].pass # ops[2].pass

\* C3: when the continuation of an entry raises, that entry's handle is still
\* released and the same pass goes on: the next queued entry is resolved at
\* once under the same lock, or, when none is left, process_callbacks returns
\* and unlocks the queue.
Raises(o) == ~ops[o].reported /\ ops'[o].reported

C3_ErrorDoesNotAbortDrain ==
  [][\A o \in OpIds : Raises(o) =>
        /\ registry'[host.cur.callback_ref] = 0
        /\ ops'[o].derefs = 1
        /\ host'.pc = "idle"
        /\ IF CALLBACK_QUEUE.items # <<>>
           THEN /\ host'.cur = Head(CALLBACK_QUEUE.items)
                /\ ops'[host'.cur.op].resolves = 1
                /\ ops'[host'.cur.op].pass = ops[o].pass
                /\ CALLBACK_QUEUE'.locked
           ELSE /\ ~host'.cur.some
                /\ ~CALLBACK_QUEUE'.locked]_vars

\* the first continuation of a pass raised, and the second entry of the same
\* pass was delivered and released after it
C3_Witness ==
  /\ ops[1].reported /\ ops[1].derefs = 1
  /\ ops[2].invokes = 1 /\ ops[2].derefs = 1
  /\ ops[1].pass = ops[2].pass
  /\ ~CALLBACK_QUEUE.locked

\* C4: a dispatch call whose continuation argument is absent or is not a
\* function raises "Callback function is required" and changes nothing else:
\* no reference is taken, no thread is spawned, the host goes on.
HasCallback(kind, stack) == is_function(stack, CallbackIndex(kind))

C4_MissingCallbackFails ==
  [][\A kind \in Kinds : \A stack \in DispatchArgs(kind) :
        (Dispatch(kind, stack) /\ ~HasCallback(kind, stack)) =>
           /\ luaError' = ErrCallback
           /\ UNCHANGED <<CONFIG, CLIENT, RUNTIME, CALLBACK_QUEUE, RUNNING_CACHE, registry,
                          refFree, ops, nOps, refreshes, nRefresh, host, now, lastIR>>]_vars

\* the age of the cache entry, as last_check.elapsed() reads it
Age == now - RUNNING_CACHE.last_check

\* C5: the first liveness query of the process takes the synchronous path:
\* the call that creates the cache returns nothing from it and spawns no
\* refresh although the new entry is stale; the probe runs on the host thread
\* under the runtime mutex; and when the first boolean is returned it is the
\* probe's result, which is also what the cache holds, checked and timestamped
\* now, with still no refresh thread spawned.
C5_FirstQueryProbes ==
  /\ [](host.pc \in {"irNet", "irUpdate"} => RUNTIME.holder = HostThread)
  /\ [](lastIR.path = "none" => nRefresh = 0 /\ ~RUNNING_CACHE.first_check_done)
  /\ [][(~RUNNING_CACHE.some /\ RUNNING_CACHE'.some) =>
          /\ RUNNING_CACHE'.last_check + CACHE_DURATION <= now
          /\ host'.pc = "irWaitRt"
          /\ UNCHANGED <<lastIR, refreshes, nRefresh>>]_vars
  /\ [][(lastIR.path = "none" /\ lastIR'.path # "none") =>
          /\ host.pc = "irUpdate"
          /\ lastIR'.val = host.status
          /\ RUNNING_CACHE' = [some |-> TRUE, is_running |-> host.status,
                               last_check |-> now, first_check_done |-> TRUE]
          /\ RUNTIME.holder = HostThread /\ RUNTIME'.holder = NoThread
          /\ nRefresh' = 0]_vars

\* the first query returned true, which the placeholder never is
C5_Witness ==
  /\ lastIR = [path |-> "first", val |-> TRUE]
  /\ RUNNING_CACHE.is_running /\ RUNNING_CACHE.first_check_done
  /\ nRefresh = 0

\* C6: once the first check is done, a query made while the entry is younger
\* than CACHE_DURATION returns the cached boolean and does nothing else: no
\* probe, no refresh thread, the runtime untouched.
C6_FreshQueryUsesCache ==
  [][(ollama_is_running /\ RUNNING_CACHE.first_check_done /\ Age < CACHE_DURATION) =>
        /\ lastIR'.val = RUNNING_CACHE.is_running
        /\ UNCHANGED <<CONFIG, CLIENT, RUNTIME, CALLBACK_QUEUE, RUNNING_CACHE, registry,
                       refFree, ops, nOps, refreshes, nRefresh, host, now, luaError>>]_vars

\* a fresh query returned true after a refresh had replaced the first answer
C6_Witness ==
  /\ lastIR = [path |-> "fresh", val |-> TRUE]
  /\ nRefresh = 1 /\ refreshes[1].pc = "done"
  /\ Age < CACHE_DURATION

\* C7: once the first check is done, a query made when the entry is at least
\* CACHE_DURATION old returns the cached boolean, spawns exactly one refresh
\* thread and leaves the host, the runtime mutex and the cache alone; after
\* the first check the cache is written only by a refresh thread that ends.
C7_StaleQueryRefreshes ==
  /\ [][(ollama_is_running /\ RUNNING_CACHE.first_check_done /\ Age >= CACHE_DURATION) =>
          /\ lastIR'.val = RUNNING_CACHE.is_running
          /\ nRefresh' = nRefresh + 1
          /\ refreshes[nRefresh'].pc = "unused" /\ refreshes'[nRefresh'].pc = "waitRt"
          /\ \A r \in RefreshIds \ {nRefresh'} : refreshes'[r] = refreshes[r]
          /\ UNCHANGED <<RUNNING_CACHE, host, ops>>
          /\ RUNTIME'.holder = RUNTIME.holder]_vars
  /\ [][(RUNNING_CACHE.first_check_done /\ RUNNING_CACHE' # RUNNING_CACHE) =>
          \E r \in RefreshIds :
             /\ refreshes[r].pc = "update" /\ refreshes'[r].pc = "done"
             /\ RUNNING_CACHE' = [RUNNING_CACHE EXCEPT !.is_running = refreshes[r].is_running,
                                                       !.last_check = now]]_vars

\* a stale query returned the old answer, its refresh is waiting to run
C7_Witness ==
  /\ lastIR = [path |-> "stale", val |-> TRUE]
  /\ nRefresh = 1 /\ refreshes[1].pc = "waitRt"
  /\ host.pc = "idle" /\ RUNTIME.holder = NoThread
  /\ RUNNING_CACHE.is_running /\ Age >= CACHE_DURATION

\* C8: SetConfig stores the new address and timeout and discards the cached
\* client; CONFIG changes in no other way (but for taking its default on
\* first use); so every dispatch and every probe started afterwards captures
\* the address last set and a client built with the timeout last set.
Started(before, after) == before.pc \in {"unused", "idle"} /\ after.pc \in {"waitRt", "irWaitRt"}
Captures(t, config) ==
  /\ t.url[1] = get_config(config).base_url
  /\ t.timeout = get_config(config).timeout

C8_NewConfigIsUsed ==
  /\ [](CLIENT.some => CONFIG.some /\ CLIENT.timeout = CONFIG.timeout)
  /\ [][ollama_set_config(<<LuaStr("http://u1"), LuaNum(5)>>) =>
          /\ ~CLIENT'.some
          /\ CONFIG' = [some |-> TRUE, base_url |-> "http://u1", timeout |-> 5]]_vars
  /\ [][CONFIG' # CONFIG =>
          \/ ollama_set_config(<<LuaStr("http://u1"), LuaNum(5)>>)
          \/ ~CONFIG.some /\ CONFIG' = DefaultConfig]_vars
  /\ [][/\ \A o \in OpIds : Started(ops[o], ops'[o]) => Captures(ops'[o], CONFIG)
        /\ \A r \in RefreshIds : Started(refreshes[r], refreshes'[r]) =>
                                    Captures(refreshes'[r], CONFIG)
        /\ Started(host, host') => Captures(host', CONFIG)]_vars

\* a refresh spawned before SetConfig holds the default address and a 30 s
\* client; the dispatch made after it holds the new address and a 5 s client
C8_Witness ==
  /\ refreshes[1].pc = "waitRt"
  /\ refreshes[1].url[1] = DefaultBaseUrl /\ refreshes[1].timeout = DefaultTimeout
  /\ ops[1].pc = "waitRt"
  /\ ops[1].url[1] = "http://u1" /\ ops[1].timeout = 5

\* C9: what a dispatch captured is never changed afterwards; its network
\* call goes to the captured url whatever CONFIG holds by then; and the
\* continuation called for its handle is its own.
C9_InFlightKeepsConfig ==
  /\ [][\A o \in OpIds : Dispatched(o) =>
           /\ ops'[o].url = ops[o].url
           /\ ops'[o].timeout = ops[o].timeout
           /\ ops'[o].callback_ref = ops[o].callback_ref]_vars
  /\ [](\A o \in OpIds : ops[o].pc = "net" => ops[o].target = ops[o].url)
  /\ [](\A o \in OpIds : ops[o].invokes = ops[o].resolves)

\* the network call of an operation dispatched under the default address is
\* running after SetConfig changed the address
C9_Witness ==
  /\ ops[1].pc = "net"
  /\ ops[1].target = <<DefaultBaseUrl, "/api/tags">>
  /\ CONFIG.base_url = "http://u1"
  /\ ~CLIENT.some

\* C10: at most one thread is inside a network call, and it holds the
\* runtime mutex.
NetThreads ==
  {OpThread(o) : o \in {x \in OpIds : ops[x].pc = "net"}}
    \cup {RefreshThread(r) : r \in {x \in RefreshIds : refreshes[x].pc = "net"}}
    \cup (IF host.pc = "irNet" THEN {HostThread} ELSE {})

C10_OneNetworkCall ==
  /\ Cardinality(NetThreads) <= 1
  /\ \A t \in NetThreads : RUNTIME.holder = t

\* a refresh is inside its network call while another refresh and a
\* dispatched operation wait for the runtime
C10_Witness ==
  /\ refreshes[1].pc = "net"
  /\ refreshes[2].pc = "waitRt"
  /\ ops[1].pc = "waitRt"

\* C11: a dispatch call never waits on another thread and returns to the
\* host: in the step of the call the runtime mutex, the queue (its lock and
\* its entries) and the liveness cache are left as they were, the host starts
\* no network call, and afterwards the host is back in its own code.
C11_DispatchReturns ==
  [][\A kind \in Kinds : \A stack \in DispatchArgs(kind) :
        Dispatch(kind, stack) =>
           /\ RUNTIME'.holder = RUNTIME.holder
           /\ CALLBACK_QUEUE'.locked = CALLBACK_QUEUE.locked
           /\ CALLBACK_QUEUE'.items = CALLBACK_QUEUE.items
           /\ RUNNING_CACHE' = RUNNING_CACHE
           /\ host'.target = NoUrl
           /\ host'.pc = "idle"]_vars

\* C12: continuations are called in the order their results were pushed,
\* whatever the order of dispatch: the entry a drain hands to its
\* continuation was pushed before every other entry that is still waiting,
\* and the drain calls a function for it.
Waiting(o) == ops[o].pushes = 1 /\ ops[o].resolves = 0

C12_DeliveredInPushOrder ==
  [][\A o \in OpIds : ops'[o].resolves # ops[o].resolves =>
        /\ Waiting(o)
        /\ ops'[o].resolves = 1 /\ ops'[o].invokes = 1
        /\ \A b \in OpIds \ {o} : Waiting(b) => ops[o].pushed_at < ops[b].pushed_at]_vars

\* the operation dispatched second pushed first and was delivered first; the
\* drain is now delivering the other one in the same pass
C12_Witness ==
  /\ ops[2].derefs = 1
  /\ host.cur.some /\ host.cur.op = 1 /\ ops[1].pushed_at = 2 /\ ops[1].invokes = 1
  /\ ops[1].pass = ops[2].pass

\* C13: a pushed entry is in exactly one place: waiting in the queue, being
\* delivered, or delivered and released; it is never dropped and never
\* delivered twice.  While a drain holds the queue nothing is added to it, so
\* the drain hands over exactly the entries it found, and it ends with the
\* queue empty, no entry discarded.  A push that meets a drain is completed
\* after it and its entry waits for the next drain.
InQueue(o) == Cardinality({i \in 1..Len(CALLBACK_QUEUE.items) : CALLBACK_QUEUE.items[i].op = o})
InDelivery(o) == IF host.cur.some /\ host.cur.op = o THEN 1 ELSE 0

C13_DrainTakesAllLosesNone ==
  /\ [](\A o \in OpIds :
          /\ InQueue(o) + InDelivery(o) + ops[o].derefs = ops[o].pushes
          /\ ops[o].pushes <= 1
          /\ ops[o].resolves = InDelivery(o) + ops[o].derefs)
  /\ [](~CALLBACK_QUEUE.locked => ~host.cur.some)
  /\ [][CALLBACK_QUEUE.locked =>
          \/ CALLBACK_QUEUE'.items = CALLBACK_QUEUE.items
          \/ /\ CALLBACK_QUEUE'.items = Tail(CALLBACK_QUEUE.items)
             /\ host'.cur = Head(CALLBACK_QUEUE.items)]_vars
  /\ [][(~CALLBACK_QUEUE.locked /\ CALLBACK_QUEUE'.locked) =>
          /\ host'.cur = Head(CALLBACK_QUEUE.items)
          /\ CALLBACK_QUEUE'.items = Tail(CALLBACK_QUEUE.items)]_vars
  /\ [][(CALLBACK_QUEUE.locked /\ ~CALLBACK_QUEUE'.locked) =>
          /\ CALLBACK_QUEUE.items = <<>>
          /\ CALLBACK_QUEUE'.items = <<>>]_vars

\* a drain is delivering the first operation's entry while the second
\* operation has its result ready to push
C13_Witness ==
  /\ CALLBACK_QUEUE.locked /\ InDelivery(1) = 1
  /\ ops[1].pushed_at = 1 /\ ops[1].resolves = 1
  /\ ops[2].pc = "push" /\ ops[2].pushes = 0

\* C14: a push never waits for the host: a background thread that has its
\* result ready can always complete the push at once, also while a drain is
\* in progress.
C14_PushNeverWaits ==
  \A o \in OpIds : ops[o].pc = "push" => ENABLED BgPush(o)

\* C15: the events of one operation happen in the order: handle registered,
\* network call completed, result pushed, continuation invoked, handle
\* released.  A later event has happened only if the earlier ones have, no
\* two of them happen in one step, and the handle stays registered to the
\* operation's continuation from dispatch until its release.
NetDone(o) == ops[o].pc \in {"push", "done"} /\ ops[o].data # ""

C15_EventsInOrder ==
  /\ [](\A o \in OpIds :
          /\ ops[o].derefs > 0 => ops[o].invokes > 0
          /\ ops[o].invokes > 0 => ops[o].pushes > 0
          /\ ops[o].pushes > 0 => NetDone(o)
          /\ NetDone(o) => Dispatched(o) /\ ops[o].callback_ref \in Refs
          /\ (Dispatched(o) /\ ops[o].derefs = 0) => registry[ops[o].callback_ref] = o)
  /\ [][\A o \in OpIds :
          /\ (~Dispatched(o) /\ Dispatched(o)') =>
                ~NetDone(o)' /\ ops'[o].pushes = 0 /\ registry'[ops'[o].callback_ref] = o
          /\ (~NetDone(o) /\ NetDone(o)') => ops'[o].pushes = 0
          /\ ops'[o].pushes # ops[o].pushes => ops'[o].invokes = 0
          /\ ops'[o].invokes # ops[o].invokes => ops'[o].derefs = 0
          /\ ops'[o].derefs # ops[o].derefs =>
                ops[o].invokes = 1 /\ registry'[ops[o].callback_ref] = 0]_vars

\* both operations went through all five events, the second reusing the
\* reference number the first had released
C15_Witness ==
  /\ ops[1].derefs = 1 /\ ops[2].derefs = 1
  /\ ops[1].callback_ref = ops[2].callback_ref
  /\ ops[2].got = "result"

\* C16: a network call that fails raises nothing on the host and stops no
\* delivery: the thread builds an Error outcome carrying the operation's
\* handle and goes on to push it, and the drain calls the continuation with
\* (message, nil); a call that succeeds ends in (nil, result).  Every
\* continuation call has exactly one of the two shapes.
C16_FailureIsDelivered ==
  /\ [][\A o \in OpIds :
          /\ BgNet(o, FALSE) =>
                /\ ops'[o].data = "Error" /\ ops'[o].pc = "push"
                /\ ops'[o].callback_ref = ops[o].callback_ref
                /\ UNCHANGED <<luaError, host, registry, CALLBACK_QUEUE>>
          /\ BgNet(o, TRUE) => ops'[o].data = ops[o].kind /\ ops'[o].pc = "push"]_vars
  /\ [](\A i \in 1..Len(CALLBACK_QUEUE.items) :
          LET e == CALLBACK_QUEUE.items[i]
          IN e.data = ops[e.op].data /\ e.callback_ref = ops[e.op].callback_ref)
  /\ [](\A o \in OpIds :
          /\ ops[o].invokes = 0 => ops[o].got = ""
          /\ ops[o].invokes > 0 =>
                /\ ops[o].got \in {"error", "result"}
                /\ ops[o].got = "error" <=> ops[o].data = "Error")

\* the first operation's network call failed and its continuation got
\* (message, nil); the second succeeded and its continuation got (nil, result)
C16_Witness ==
  /\ ops[1].data = "Error" /\ ops[1].got = "error" /\ ops[1].derefs = 1
  /\ ops[2].data = ops[2].kind /\ ops[2].got = "result"
  /\ luaError = NoError

\* C17: when the client or the runtime cannot be had, the failure stays with
\* the one operation and reaches its continuation as (message, nil): the
\* handle registered for it is resolved once, and every other operation is
\* delivered as usual.
C17_ConstructionFailureDelivered ==
  /\ \A o \in OpIds : (ops[o].pc = "failed") ~> (ops[o].invokes = 1 /\ ops[o].got = "error")
  /\ \A o \in OpIds : (ops[o].pc = "waitRt") ~> (ops[o].invokes = 1)
  /\ [](\A o \in OpIds : ops[o].invokes <= 1 /\ ops[o].derefs <= 1)

\* C18: continuations are called and released by the host thread only, and
\* only inside process_callbacks; a step of a background thread (of an
\* operation or of a refresh) leaves the Lua registry, the Lua error state,
\* the host, CONFIG and CLIENT as they are, and works on what it captured:
\* its network call goes to the captured url.
BackgroundStep ==
  \/ \E o \in OpIds : BgLock(o) \/ BgNet(o, TRUE) \/ BgNet(o, FALSE) \/ BgPush(o)
  \/ \E r \in RefreshIds :
        RefreshLock(r) \/ RefreshNet(r, TRUE) \/ RefreshNet(r, FALSE) \/ RefreshUpdate(r)

DrainStep == process_callbacks \/ ContinuationReturn(TRUE) \/ ContinuationReturn(FALSE)

ContinuationsOf(opsf) ==
  [o \in OpIds |-> <<opsf[o].resolves, opsf[o].invokes, opsf[o].derefs, opsf[o].got,
                     opsf[o].reported>>]

C18_OnlyHostTouchesLua ==
  /\ [][BackgroundStep =>
          /\ UNCHANGED <<CONFIG, CLIENT, registry, refFree, luaError, host, lastIR>>
          /\ ContinuationsOf(ops') = ContinuationsOf(ops)]_vars
  /\ [][ContinuationsOf(ops') # ContinuationsOf(ops) =>
          /\ DrainStep
          /\ CALLBACK_QUEUE.locked \/ CALLBACK_QUEUE'.locked]_vars
  /\ [][(\E r \in Refs : registry[r] # 0 /\ registry'[r] = 0) => DrainStep]_vars
  /\ [](\A o \in OpIds : ops[o].pc = "net" => ops[o].target = ops[o].url)
  /\ [](\A r \in RefreshIds : refreshes[r].pc = "net" => refreshes[r].target = refreshes[r].url)

\* the host is running the continuation of an operation that was dispatched
\* under the default address, after SetConfig changed the address and a
\* refresh thread wrote the cache
C18_Witness ==
  /\ CALLBACK_QUEUE.locked /\ host.cur.some /\ host.cur.op = 1
  /\ ops[1].invokes = 1 /\ ops[1].url[1] = DefaultBaseUrl
  /\ CONFIG.base_url = "http://u1"
  /\ refreshes[1].pc = "done"

\* C19: a probe whose network call fails, or whose response has a status
\* that is not a success, reads as false; the probe that ends with false
\* stores false in the cache, with the time of the update and
\* first_check_done set; the query raises no error and what it returns is a
\* boolean (false, on the first check that failed).
C19_FailedProbeCachesFalse ==
  /\ [][\A outcome \in ProbeOutcomes \ {"success"} :
          /\ IsRunningNet(ProbeStatus(outcome)) => ~host'.status
          /\ \A r \in RefreshIds :
                RefreshNet(r, ProbeStatus(outcome)) => ~refreshes'[r].is_running]_vars
  /\ [][(IsRunningReturn /\ ~host.status) =>
          /\ RUNNING_CACHE' = [some |-> TRUE, is_running |-> FALSE, last_check |-> now,
                               first_check_done |-> TRUE]
          /\ lastIR' = [path |-> "first", val |-> FALSE]
          /\ luaError' = luaError]_vars
  /\ [][\A r \in RefreshIds : (RefreshUpdate(r) /\ ~refreshes[r].is_running) =>
          /\ RUNNING_CACHE' = [some |-> TRUE, is_running |-> FALSE, last_check |-> now,
                               first_check_done |-> TRUE]
          /\ UNCHANGED <<luaError, lastIR, host>>]_vars
  /\ [][lastIR' # lastIR => lastIR'.val \in BOOLEAN /\ luaError' = luaError]_vars

\* the first check had found the server running; the refresh spawned by a
\* stale query failed and the cache now holds false with a new timestamp
C19_Witness ==
  /\ lastIR = [path |-> "stale", val |-> TRUE]
  /\ refreshes[1].pc = "done"
  /\ RUNNING_CACHE = [some |-> TRUE, is_running |-> FALSE, last_check |-> now,
                      first_check_done |-> TRUE]
  /\ now >= CACHE_DURATION

\* C20: SetConfig with a malformed address, or with a timeout that is not a
\* number or is negative, raises an error and leaves CONFIG and CLIENT as
\* they were; with the timeout absent or nil it stores the default timeout
\* of 30 seconds.
WellFormedAddresses == {"http://u1", "http://u2"}

MalformedAddress(stack) ==
  get_top(stack) < 1 \/ stack[1].t # "str" \/ stack[1].s \notin WellFormedAddresses

TimeoutGiven(stack) == get_top(stack) >= 2 /\ ~is_nil(stack, 2)

MalformedTimeout(stack) ==
  TimeoutGiven(stack) /\ (stack[2].t # "num" \/ stack[2].n < 0)

C20_SetConfigValidates ==
  [][\A stack \in SetConfigArgs : ollama_set_config(stack) =>
        IF MalformedAddress(stack) \/ MalformedTimeout(stack)
        THEN luaError' # NoError /\ UNCHANGED <<CONFIG, CLIENT>>
        ELSE /\ luaError' = NoError
             /\ CONFIG'.base_url = stack[1].s
             /\ ~TimeoutGiven(stack) => CONFIG'.timeout = DefaultTimeout]_vars

\* C21: the model name a request carries is the given name when that name
\* has a ':' anywhere (also as its last character), and the given name
\* followed by ":latest" when it has none (also for the empty name).  So the
\* name of every request has a ':' and normalizing it again changes nothing,
\* normalizing is idempotent on every name, and a name without a tag and the
\* same name with ":latest" give the same request name.
HasColon(name) == ":" \in {name[i] : i \in DOMAIN name}

NormalizeLaws ==
  \A name \in ModelNames :
     /\ normalize_model_name(normalize_model_name(name)) = normalize_model_name(name)
     /\ ~HasColon(name) =>
           normalize_model_name(name \o LatestTag) = normalize_model_name(name)

C21_NormalizeModelName ==
  /\ [][(nOps' = nOps + 1 /\ UsesModel(ops'[nOps'].kind)) =>
          \A name \in ModelNames :
             Dispatch(ops'[nOps'].kind, NameArgs(ops'[nOps'].kind, name)) =>
                ops'[nOps'].model = IF HasColon(name) THEN name ELSE name \o LatestTag]_vars
  /\ [](\A o \in OpIds : (Dispatched(o) /\ UsesModel(ops[o].kind)) =>
          /\ HasColon(ops[o].model)
          /\ normalize_model_name(ops[o].model) = ops[o].model)
  /\ []NormalizeLaws

\* a request made with the empty name carries ":latest" and was delivered
C21_Witness ==
  /\ ops[1].kind = "Generate" /\ ops[1].model = LatestTag
  /\ ops[1].invokes = 1

\* C22: the liveness cache changes only when the first query creates it,
\* when the first check returns and when a refresh thread ends; SetConfig,
\* the dispatch functions, the threads of dispatched operations and
\* process_callbacks leave it as it is, so a query within CACHE_DURATION
\* returns the cached value whatever CONFIG holds by then; and no step of a
\* liveness query or of a refresh takes a reference or touches the queue.
LivenessStep ==
  \/ ollama_is_running \/ IsRunningLock \/ IsRunningReturn
  \/ IsRunningNet(TRUE) \/ IsRunningNet(FALSE)
  \/ \E r \in RefreshIds :
        RefreshLock(r) \/ RefreshNet(r, TRUE) \/ RefreshNet(r, FALSE) \/ RefreshUpdate(r)

OtherStep ==
  \/ \E stack \in SetConfigArgs : ollama_set_config(stack)
  \/ \E kind \in Kinds : \E stack \in DispatchArgs(kind) : Dispatch(kind, stack)
  \/ \E o \in OpIds : BgLock(o) \/ BgNet(o, TRUE) \/ BgNet(o, FALSE) \/ BgPush(o)
  \/ DrainStep

C22_CacheWrittenByProbesOnly ==
  /\ [][RUNNING_CACHE' # RUNNING_CACHE =>
          \/ ollama_is_running /\ ~RUNNING_CACHE.some
          \/ IsRunningReturn
          \/ \E r \in RefreshIds : RefreshUpdate(r)]_vars
  /\ [][RUNNING_CACHE' # RUNNING_CACHE => ~OtherStep]_vars
  /\ [][(ollama_is_running /\ RUNNING_CACHE.first_check_done /\ Age < CACHE_DURATION) =>
          lastIR'.val = RUNNING_CACHE.is_running /\ UNCHANGED <<RUNNING_CACHE, host>>]_vars
  /\ [][<<registry, refFree, CALLBACK_QUEUE, ops, nOps, luaError>>' #
            <<registry, refFree, CALLBACK_QUEUE, ops, nOps, luaError>> =>
          ~LivenessStep]_vars

\* the first check probed the default address and found the server running;
\* SetConfig then changed the address and discarded the client; the cache
\* still holds the old answer, and the last query returned it
C22_Witness ==
  /\ host.probed = DefaultBaseUrl /\ nRefresh = 0
  /\ CONFIG.base_url = "http://u1" /\ ~CLIENT.some
  /\ RUNNING_CACHE.first_check_done /\ RUNNING_CACHE.is_running
  /\ Age < CACHE_DURATION
  /\ lastIR = [path |-> "fresh", val |-> TRUE]
  /\ ops[1].derefs = 1

\* C23: no deadlock over the runtime mutex and the queue mutex: in no
\* reachable state does a thread wait for a mutex whose holder waits, in
\* turn, for a mutex the first thread holds (or for itself).
HostHoldsQueue == CALLBACK_QUEUE.locked
HostWaitsQueue == host.pc = "stuck"
HostWaitsRuntime == host.pc = "irWaitRt" /\ RUNTIME.holder # NoThread
OpHoldsRuntime(o) == RUNTIME.holder = OpThread(o)
OpWaitsQueue(o) == ops[o].pc = "push" /\ CALLBACK_QUEUE.locked

C23_DeadlockFree ==
  /\ ~(HostHoldsQueue /\ HostWaitsQueue)
  /\ ~(\E o \in OpIds : /\ HostHoldsQueue /\ HostWaitsRuntime
                        /\ OpHoldsRuntime(o) /\ OpWaitsQueue(o))

\* C24: at most one background refresh is in flight: between the spawn of a
\* refresh thread and its write to the cache no other refresh thread exists.
InFlight(r) == refreshes[r].pc \in {"waitRt", "net", "update"}

C24_OneRefreshInFlight ==
  Cardinality({r \in RefreshIds : InFlight(r)}) <= 1

\* C25: the cache holds the result of the probe that completed last: a
\* probe keeps the runtime from the start of its network call until it has
\* written the cache, so between the end of a probe's network call and its
\* write no other probe runs or writes, and each write stores the result of
\* the one probe whose network call has ended.
Probing ==
  {RefreshThread(r) : r \in {x \in RefreshIds : refreshes[x].pc \in {"net", "update"}}}
    \cup (IF host.pc \in {"irNet", "irUpdate"} THEN {HostThread} ELSE {})

C25_WritesInProbeOrder ==
  /\ [](Cardinality(Probing) <= 1 /\ \A t \in Probing : RUNTIME.holder = t)
  /\ [][RUNNING_CACHE' # RUNNING_CACHE /\ RUNNING_CACHE.some =>
          \/ /\ host.pc = "irUpdate" /\ Probing = {HostThread}
             /\ RUNNING_CACHE'.is_running = host.status
             /\ Probing' = {}
          \/ \E r \in RefreshIds :
                /\ refreshes[r].pc = "update" /\ Probing = {RefreshThread(r)}
                /\ RUNNING_CACHE'.is_running = refreshes[r].is_running
                /\ Probing' = {}]_vars

\* two refreshes are in flight: the first has the answer of its network call
\* (the server runs) and is about to replace the cached false, the second
\* waits for the runtime
C25_Witness ==
  /\ refreshes[1].pc = "update" /\ refreshes[1].is_running
  /\ refreshes[2].pc = "waitRt"
  /\ RUNNING_CACHE.first_check_done /\ ~RUNNING_CACHE.is_running

\* C26: first_check_done never goes back to false; so once a liveness query
\* has returned, the host is never again on the synchronous path: it does
\* not wait for the runtime, hold it or probe, whatever happens in between.
OnSyncPath == host.pc \in {"irWaitRt", "irNet", "irUpdate"}

C26_FirstCheckDoneMonotone ==
  /\ [][RUNNING_CACHE.first_check_done => RUNNING_CACHE'.first_check_done]_vars
  /\ [][RUNNING_CACHE.some => RUNNING_CACHE'.some]_vars
  /\ [](lastIR.path # "none" =>
          /\ RUNNING_CACHE.first_check_done
          /\ ~OnSyncPath
          /\ RUNTIME.holder # HostThread)
  /\ [][(ollama_is_running /\ lastIR.path # "none") =>
          lastIR'.path \in {"fresh", "stale"} /\ UNCHANGED host]_vars

\* after the first check, a SetConfig, a delivered operation and a refresh
\* that found the server down, a query answered from the cache
C26_Witness ==
  /\ lastIR = [path |-> "fresh", val |-> FALSE]
  /\ host.probed = DefaultBaseUrl /\ CONFIG.base_url = "http://u1"
  /\ ops[1].derefs = 1
  /\ refreshes[1].pc = "done" /\ ~RUNNING_CACHE.is_running
  /\ RUNNING_CACHE.first_check_done

====
